---- MODULE Spec2Model ----
(***************************************************************************)
(* Model of regex_tools: the regex -> prefix form -> parse tree ->         *)
(* epsilon-NFA -> DFA pipeline of regex_parser.py and the automata of      *)
(* dfa_nfa.py.                                                             *)
(*                                                                         *)
(* A Python string is a sequence of one-character strings.  A Python dict  *)
(* is a function whose DOMAIN is the set of its keys; a key (q, ch) is the *)
(* pair <<q, ch>> and the epsilon symbol is the empty string "".           *)
(* A raised exception is the name of its class.                            *)
(***************************************************************************)
EXTENDS Integers, Sequences, FiniteSets, TLC

VARIABLES
    pc,             \* the statement the program is at
    regex,          \* argument of construct_matcher
    std,            \* standardize(regex), as computed by construct_parse_tree
    prefix,         \* value returned by infix_to_prefix
    tree,           \* value returned by construct_parse_tree
    raised,         \* the exception that ended the call, or "none"
    nfa0,           \* the NFA argument as it was when NFA_to_DFA was called
    nfa,            \* the NFA object passed to NFA_to_DFA (its F is shared)
    eps_free,       \* value returned by NFA_to_eps_free_NFA
    state_origins,  \* eps_free_NFA_to_DFA: DFA id -> macro-state
    new_delta,      \* eps_free_NFA_to_DFA: the DFA's transition table
    work_set,       \* eps_free_NFA_to_DFA: ids not yet processed
    id_gen,         \* eps_free_NFA_to_DFA: next value of count()
    cur,            \* eps_free_NFA_to_DFA: the id popped from work_set
    todo,           \* eps_free_NFA_to_DFA: symbols the for loop has yet to visit
    popped,         \* history: how many times each id was popped
    dfa,            \* value returned by NFA_to_DFA
    verdict         \* word -> the results of accepts / rejects on it

vars == <<pc, regex, std, prefix, tree, raised, nfa0, nfa, eps_free,
          state_origins, new_delta, work_set, id_gen, cur, todo, popped,
          dfa, verdict>>

----------------------------------------------------------------------------
(* Bounds of the model *)

MaxLen == 6         \* longest enumerated regex
MaxEdges == 2       \* most transitions of an enumerated NFA
MaxWord == 3        \* longest enumerated word

----------------------------------------------------------------------------
(* Characters and strings *)

Letters == {"a", "b", "c", "d", "e", "0", "1"}
Whitespace == {" "}
RegexChars == {"a", "|", "*", "(", ")", " "}

isalnum(ch) == ch \in Letters
isspace(ch) == ch \in Whitespace

Strings(chars, n) == UNION {[1..k -> chars] : k \in 0..n}

Reverse(s) == [i \in 1..Len(s) |-> s[Len(s) + 1 - i]]

NoError == "none"

----------------------------------------------------------------------------
(* regex_parser.standardize *)

\* concatenation_patterns without '*(': a star is never concatenated with
\* the group after it
concatenation_patterns_without_star_group ==
    {<<"A", "A">>, <<"A", "(">>, <<"*", "A">>, <<")", "(">>, <<")", "A">>}

concatenation_patterns ==
    {<<"A", "A">>, <<"A", "(">>, <<"*", "A">>, <<"*", "(">>,
     <<")", "(">>, <<")", "A">>}

\* pattern with '.' taken for an alphanumeric character
pattern_class_dot_alnum(ch) == IF isalnum(ch) \/ ch = "." THEN "A" ELSE ch

\* 'A' if ch.isalnum() else ch
pattern_class(ch) == IF isalnum(ch) THEN "A" ELSE ch

\* standardize without its whitespace filter (line 26 dropped)
standardize_keeping_whitespace(s) ==
    LET r == s
        RECURSIVE walk(_)
        walk(i) ==
            IF i > Len(r) THEN <<>>
            ELSE IF i = Len(r) THEN <<r[i]>>
            ELSE IF <<pattern_class(r[i]), pattern_class(r[i + 1])>>
                        \in concatenation_patterns
                 THEN <<r[i], ".">> \o walk(i + 1)
                 ELSE <<r[i]>> \o walk(i + 1)
    IN  walk(1)

standardize(s) ==
    LET r == SelectSeq(s, LAMBDA ch : ~isspace(ch))
        RECURSIVE walk(_)
        walk(i) ==
            IF i > Len(r) THEN <<>>
            ELSE IF i = Len(r) THEN <<r[i]>>
            ELSE IF <<pattern_class(r[i]), pattern_class(r[i + 1])>>
                        \in concatenation_patterns
                 THEN <<r[i], ".">> \o walk(i + 1)
                 ELSE <<r[i]>> \o walk(i + 1)
    IN  walk(1)

----------------------------------------------------------------------------
(* regex_parser.infix_to_prefix *)

Top(op_stack) == op_stack[Len(op_stack)]
Pop(op_stack) == SubSeq(op_stack, 1, Len(op_stack) - 1)

\* while op_stack and op_stack[-1] in tops: result += op_stack[-1]; pop
RECURSIVE pop_while(_, _)
pop_while(st, tops) ==
    IF st.op_stack # <<>> /\ Top(st.op_stack) \in tops
    THEN pop_while([st EXCEPT !.result = Append(@, Top(st.op_stack)),
                              !.op_stack = Pop(@)], tops)
    ELSE st

\* while op_stack[-1] != ')': result += op_stack[-1]; pop
\* (indexing an empty list raises IndexError)
RECURSIVE pop_until_paren(_)
pop_until_paren(st) ==
    IF st.op_stack = <<>> THEN [st EXCEPT !.err = "IndexError"]
    ELSE IF Top(st.op_stack) # ")"
    THEN pop_until_paren([st EXCEPT !.result = Append(@, Top(st.op_stack)),
                                    !.op_stack = Pop(@)])
    ELSE st

\* one iteration of "for ch in reversed(regex)"
scan_char(st, ch) ==
    IF st.err # NoError THEN st
    ELSE IF isspace(ch) THEN st
    ELSE IF isalnum(ch) THEN [st EXCEPT !.result = Append(@, ch)]
    ELSE IF ch = "*" THEN [st EXCEPT !.op_stack = Append(@, ch)]
    ELSE IF ch = "." THEN
        LET s1 == pop_while(st, {"*"})
        IN  [s1 EXCEPT !.op_stack = Append(@, ch)]
    ELSE IF ch = "|" THEN
        LET s1 == pop_while(st, {".", "*"})
        IN  [s1 EXCEPT !.op_stack = Append(@, ch)]
    ELSE IF ch = ")" THEN [st EXCEPT !.op_stack = Append(@, ch)]
    ELSE IF ch = "(" THEN
        IF st.op_stack = <<>> THEN [st EXCEPT !.err = "AssertionError"]
        ELSE LET s1 == pop_until_paren(st)
             IN  IF s1.err # NoError THEN s1
                 ELSE LET s2 == [s1 EXCEPT !.op_stack = Pop(@)]
                      IN  IF s2.op_stack # <<>>
                          THEN [s2 EXCEPT !.result = Append(@, Top(s2.op_stack)),
                                          !.op_stack = Pop(@)]
                          ELSE s2
    ELSE [st EXCEPT !.err = "ValueError"]

RECURSIVE scan(_, _, _)
scan(st, s, i) ==
    IF i > Len(s) THEN st ELSE scan(scan_char(st, s[i]), s, i + 1)

\* returns [err, result]: the exception raised, or the prefix form
infix_to_prefix(s) ==
    LET r == standardize(s)
        st == scan([op_stack |-> <<>>, result |-> <<>>, err |-> NoError],
                   Reverse(r), 1)
    IN  IF st.err # NoError
        THEN [err |-> st.err, result |-> <<>>]
        ELSE [err |-> NoError,
              result |-> Reverse(st.result \o Reverse(st.op_stack))]

----------------------------------------------------------------------------
(* regex_parser.Node and construct_parse_tree *)

None == [data |-> "None"]
Node(data, left, right) == [data |-> data, left |-> left, right |-> right]

Drop(s, n) == SubSeq(s, n + 1, Len(s))

\* returns [err, tree, remainder]
RECURSIVE construct_branch(_)
construct_branch(tail) ==
    IF tail = <<>> THEN [err |-> NoError, tree |-> None, remainder |-> <<>>]
    ELSE LET ch == tail[1] IN
    IF isalnum(ch)
    THEN [err |-> NoError, tree |-> Node(ch, None, None),
          remainder |-> Drop(tail, 1)]
    ELSE IF ch = "*" THEN
        LET l == construct_branch(Drop(tail, 1))
        IN  IF l.err # NoError THEN l
            ELSE [err |-> NoError, tree |-> Node(ch, l.tree, None),
                  remainder |-> l.remainder]
    ELSE IF ch \in {".", "|"} THEN
        LET l == construct_branch(Drop(tail, 1))
        IN  IF l.err # NoError THEN l
            ELSE LET r == construct_branch(l.remainder)
                 IN  IF r.err # NoError THEN r
                     ELSE [err |-> NoError, tree |-> Node(ch, l.tree, r.tree),
                           remainder |-> r.remainder]
    ELSE [err |-> "ValueError", tree |-> None, remainder |-> <<>>]

\* returns [err, tree]
construct_parse_tree(s) ==
    LET p == infix_to_prefix(standardize(s))
    IN  IF p.err # NoError THEN [err |-> p.err, tree |-> None]
        ELSE LET b == construct_branch(p.result)
             IN  IF b.err # NoError THEN [err |-> b.err, tree |-> None]
                 ELSE [err |-> NoError, tree |-> b.tree]

----------------------------------------------------------------------------
(* dfa_nfa.NFA and dfa_nfa.DFA *)

epsilon == ""

EmptyDict == <<>>

\* dict.get(key, set())
Get(delta, key) == IF key \in DOMAIN delta THEN delta[key] ELSE {}

\* NFA.__init__(self, *, q0, delta, F): the parameters are keyword-only, so
\* a call that passes them positionally raises TypeError
NFA_init(call, q0, delta, F) ==
    IF call = "keyword"
    THEN [err |-> NoError, q0 |-> q0, delta |-> delta, F |-> F]
    ELSE [err |-> "TypeError", q0 |-> -1, delta |-> EmptyDict, F |-> {}]

\* NFA.Delta
Delta(n, states, ch) == UNION {Get(n.delta, <<q, ch>>) : q \in states}

\* _epsilon_closure with its loop run once: the epsilon-successors of the
\* given states are added, theirs are not
closure_loop_once(n, result, new_states) ==
    result \cup new_states \cup Delta(n, new_states, epsilon)

\* while new_states: result.update(new_states); new_states = Delta(...) - result
RECURSIVE closure_loop(_, _, _)
closure_loop(n, result, new_states) ==
    IF new_states = {} THEN result
    ELSE LET r == result \cup new_states
         IN  closure_loop(n, r, Delta(n, new_states, epsilon) \ r)

\* NFA._epsilon_closure
epsilon_closure(n, states) == closure_loop(n, {}, states)

RECURSIVE NFA_run(_, _, _, _)
NFA_run(n, current_states, w, i) ==
    IF i > Len(w) THEN current_states
    ELSE NFA_run(n, epsilon_closure(n, Delta(n, current_states, w[i])), w, i + 1)

NFA_accepts(n, w) ==
    (NFA_run(n, epsilon_closure(n, {n.q0}), w, 1) \cap n.F) # {}

NFA_rejects(n, w) == ~NFA_accepts(n, w)

\* DFA.accepts without lines 21-22: a missing transition is skipped, the
\* automaton stays where it is
RECURSIVE DFA_run_skipping_missing(_, _, _, _)
DFA_run_skipping_missing(d, current_state, w, i) ==
    IF i > Len(w) THEN current_state \in d.F
    ELSE IF <<current_state, w[i]>> \notin DOMAIN d.delta
         THEN DFA_run_skipping_missing(d, current_state, w, i + 1)
    ELSE DFA_run_skipping_missing(d, d.delta[<<current_state, w[i]>>], w, i + 1)

RECURSIVE DFA_run(_, _, _, _)
DFA_run(d, current_state, w, i) ==
    IF i > Len(w) THEN current_state \in d.F
    ELSE IF <<current_state, w[i]>> \notin DOMAIN d.delta THEN FALSE
    ELSE DFA_run(d, d.delta[<<current_state, w[i]>>], w, i + 1)

DFA_accepts(d, w) == DFA_run(d, d.q0, w, 1)

DFA_rejects(d, w) == ~DFA_accepts(d, w)

----------------------------------------------------------------------------
(* regex_parser.construct_matcher.construct_NFA (Thompson's algorithm) *)

\* for q in F: delta.setdefault((q, ''), set()).add(target)
add_epsilon(delta, F, target) ==
    [k \in DOMAIN delta \cup {<<q, epsilon>> : q \in F} |->
        Get(delta, k) \cup
        (IF k[2] = epsilon /\ k[1] \in F THEN {target} ELSE {})]

\* {**left, **right}: on a key of both, the right value replaces the left
merge(left, right) == right @@ left

Failed(err, n) ==
    [err |-> err, q0 |-> -1, delta |-> EmptyDict, F |-> {}, next |-> n]

Built(machine, n) ==
    [err |-> machine.err, q0 |-> machine.q0, delta |-> machine.delta,
     F |-> machine.F, next |-> n]

\* n is the next value of id_gen; returns [err, q0, delta, F, next]
RECURSIVE construct_NFA(_, _)
construct_NFA(t, n) ==
    IF t = None THEN Failed("AssertionError", n)
    ELSE LET token == t.data IN
    IF isalnum(token) THEN
        IF ~(t.left = None /\ t.right = None) THEN Failed("AssertionError", n)
        ELSE LET q0 == n
                 q1 == n + 1
             IN  Built(NFA_init("positional", q0, <<q0, token>> :> {q1}, {q1}),
                       n + 2)
    ELSE IF token = "*" THEN
        IF ~(t.left # None /\ t.right = None) THEN Failed("AssertionError", n)
        ELSE LET son_nfa == construct_NFA(t.left, n)
             IN  IF son_nfa.err # NoError THEN son_nfa
                 ELSE LET q0 == son_nfa.q0
                      IN  Built(NFA_init("positional", q0,
                                         add_epsilon(son_nfa.delta, son_nfa.F, q0),
                                         son_nfa.F \cup {q0}),
                                son_nfa.next)
    ELSE IF token = "." THEN
        IF ~(t.left # None /\ t.right # None) THEN Failed("AssertionError", n)
        ELSE LET left_nfa == construct_NFA(t.left, n)
             IN  IF left_nfa.err # NoError THEN left_nfa
                 ELSE LET right_nfa == construct_NFA(t.right, left_nfa.next)
                      IN  IF right_nfa.err # NoError THEN right_nfa
                          ELSE Built(NFA_init("positional", left_nfa.q0,
                                         add_epsilon(merge(left_nfa.delta,
                                                           right_nfa.delta),
                                                     left_nfa.F, right_nfa.q0),
                                         right_nfa.F),
                                     right_nfa.next)
    ELSE IF token = "|" THEN
        IF ~(t.left # None /\ t.right # None) THEN Failed("AssertionError", n)
        ELSE LET left_nfa == construct_NFA(t.left, n)
             IN  IF left_nfa.err # NoError THEN left_nfa
                 ELSE LET right_nfa == construct_NFA(t.right, left_nfa.next)
                      IN  IF right_nfa.err # NoError THEN right_nfa
                          ELSE LET q0 == right_nfa.next
                               IN  Built(NFA_init("positional", q0,
                                             (<<q0, epsilon>> :>
                                                 {left_nfa.q0, right_nfa.q0})
                                             @@ merge(left_nfa.delta,
                                                      right_nfa.delta),
                                             left_nfa.F \cup right_nfa.F),
                                         q0 + 1)
    ELSE Failed("AssertionError", n)

\* construct_matcher, up to the call of NFA_to_DFA:
\* construct_NFA(construct_parse_tree(regex))
construct_matcher_NFA(s) ==
    LET t == construct_parse_tree(s)
    IN  IF t.err # NoError THEN Failed(t.err, 0)
        ELSE construct_NFA(t.tree, 0)

----------------------------------------------------------------------------
(* dfa_nfa.NFA_to_DFA.NFA_to_eps_free_NFA *)

other_start_states(n) == epsilon_closure(n, {n.q0}) \ {n.q0}

\* the keys (q, ch) of n.delta with ch != ''
labelled_keys(n) == {k \in DOMAIN n.delta : k[2] # epsilon}

\* NFA_to_eps_free_NFA without line 154: the targets R are not closed under
\* epsilon-transitions
eps_free_delta_without_closure(n) ==
    LET others == other_start_states(n)
        keys == labelled_keys(n) \cup
                {<<n.q0, k[2]>> : k \in {j \in labelled_keys(n) : j[1] \in others}}
    IN  [key \in keys |->
            UNION {n.delta[k] :
                   k \in {j \in labelled_keys(n) :
                            \/ j = key
                            \/ /\ j[1] \in others
                               /\ key = <<n.q0, j[2]>>}}]

\* new_delta of NFA_to_eps_free_NFA
eps_free_delta(n) ==
    LET others == other_start_states(n)
        keys == labelled_keys(n) \cup
                {<<n.q0, k[2]>> : k \in {j \in labelled_keys(n) : j[1] \in others}}
    IN  [key \in keys |->
            UNION {epsilon_closure(n, n.delta[k]) :
                   k \in {j \in labelled_keys(n) :
                            \/ j = key
                            \/ /\ j[1] \in others
                               /\ key = <<n.q0, j[2]>>}}]

\* NFA_to_eps_free_NFA without lines 159-160: q0 never becomes accepting
eps_free_F_unchanged(n) == n.F

\* new_F = nfa.F; if new_F & other_start_states: new_F.add(new_q0)
\* new_F is the very set object the argument holds
eps_free_F(n) ==
    IF n.F \cap other_start_states(n) # {} THEN n.F \cup {n.q0} ELSE n.F

NFA_to_eps_free_NFA(n) ==
    NFA_init("keyword", n.q0, eps_free_delta(n), eps_free_F(n))

----------------------------------------------------------------------------
(* Inputs *)

\* the regexes of TestFunction_construct_matcher
TestRegexes ==
    {<<"d", "|", "(", "a", "*", "b", "|", "c", "*", ")", "e">>,
     <<"a", "*", "b", "*">>}

Regexes == Strings(RegexChars, MaxLen) \cup TestRegexes

\* the strings standardize is given: those of a regex, and '.' written out
StandardizeChars == RegexChars \cup {"."}

\* the inputs of TestFunction_standardize
TestStandardizeInputs ==
    {<<" ", "a", " ", "|", "b", " ", "c">>,
     <<"a", "b", "|", " ", "c", " ">>,
     <<" ", "(", " ", "a", " ", "*", " ", "b", " ", "c", " ", "*", " ", ")",
       " ", "*">>,
     <<"d", " ", "|", " ", "(", "a", "*", "b", " ", "|", "c", " ", "*", ")",
       "e">>}

StandardizeInputs ==
    Strings(StandardizeChars, MaxLen - 1) \cup TestStandardizeInputs

NFAStates == {0, 1, 2}
NFASymbols == {epsilon, "a", "b"}
Edges == NFAStates \X NFASymbols \X NFAStates

\* the states a path of transitions in E leads to from the states in seen
RECURSIVE Reach(_, _)
Reach(E, seen) ==
    LET more == {e[3] : e \in {x \in E : x[1] \in seen}} \ seen
    IN  IF more = {} THEN seen ELSE Reach(E, seen \cup more)

\* the sets of at most k transitions, each leaving a state that state 0 reaches
RECURSIVE EdgeSets(_)
EdgeSets(k) ==
    IF k = 0 THEN {{}}
    ELSE LET S == EdgeSets(k - 1)
         IN  S \cup UNION {{s \cup {e} : e \in {x \in Edges : x[1] \in Reach(s, {0})}} :
                           s \in S}

\* the dict {(q, ch): {r, ...}} whose transitions are the edges E
DictOf(E) ==
    [k \in {<<e[1], e[2]>> : e \in E} |->
        {e[3] : e \in {x \in E : x[1] = k[1] /\ x[2] = k[2]}}]

\* the NFAs of TestNFA.setUp and TestFunction_nfa_to_dfa.setUp
TestNFAs ==
    {NFA_init("keyword", 0,
        DictOf({<<0, "a", 1>>, <<0, "a", 3>>, <<0, "b", 7>>, <<1, "b", 2>>,
                <<2, "c", 6>>, <<3, "a", 5>>, <<3, "b", 4>>, <<5, "a", 4>>}),
        {2, 5}),
     NFA_init("keyword", 0,
        DictOf({<<0, epsilon, 1>>, <<0, epsilon, 2>>, <<1, "a", 3>>,
                <<2, "b", 3>>}),
        {3}),
     NFA_init("keyword", 0,
        DictOf({<<0, epsilon, 1>>, <<0, epsilon, 2>>, <<1, "a", 1>>,
                <<1, "a", 3>>, <<2, epsilon, 3>>, <<3, "c", 4>>}),
        {3, 4}),
     NFA_init("keyword", 1,
        DictOf({<<1, epsilon, 3>>, <<1, "0", 2>>, <<2, "1", 2>>, <<2, "1", 4>>,
                <<3, epsilon, 2>>, <<3, "0", 4>>, <<4, "0", 3>>}),
        {3, 4})}

EnumeratedNFAs ==
    {NFA_init("keyword", 0, DictOf(E), F) :
        E \in EdgeSets(MaxEdges), F \in SUBSET NFAStates}

NFAs == EnumeratedNFAs \cup TestNFAs

\* DFA.__init__(self, *, q0, delta, F)
DFA_init(q0, delta, F) == [q0 |-> q0, delta |-> delta, F |-> F]

\* the DFA of TestDFA.setUp
TestDFAs == {DFA_init(0, (<<0, "a">> :> 1) @@ (<<1, "a">> :> 0), {1})}

DFAStates == {0, 1}
DFASymbols == {"a", "b"}

\* the hand-built DFAs: every partial transition function over DFAStates and
\* DFASymbols, with every set of accepting states
EnumeratedDFAs ==
    {DFA_init(0, delta, F) :
        delta \in UNION {[K -> DFAStates] : K \in SUBSET (DFAStates \X DFASymbols)},
        F \in SUBSET DFAStates}

DFAs == EnumeratedDFAs \cup TestDFAs

\* the words tried on a hand-built DFA
DFAWords == Strings(DFASymbols, MaxWord)

\* the symbols labelling a transition of n
Labels(n) == {k[2] : k \in DOMAIN n.delta} \ {epsilon}

\* the words tried on n: over its labels and "b", which may label nothing
Words(n) == Strings(Labels(n) \cup {"b"}, MaxWord)

----------------------------------------------------------------------------
(* State machine *)

NoNFA == NFA_init("keyword", -1, EmptyDict, {})
NoDFA == [q0 |-> -1, delta |-> EmptyDict, F |-> {}]

InitLocals ==
    /\ std = <<>>
    /\ prefix = <<>>
    /\ tree = None
    /\ raised = NoError
    /\ eps_free = NoNFA
    /\ state_origins = EmptyDict
    /\ new_delta = EmptyDict
    /\ work_set = {}
    /\ id_gen = 0
    /\ cur = -1
    /\ todo = {}
    /\ popped = EmptyDict
    /\ dfa = NoDFA
    /\ verdict = EmptyDict

\* a call construct_matcher(regex)
InitRegex ==
    /\ pc = "construct_matcher"
    /\ regex \in Regexes
    /\ nfa0 = NoNFA
    /\ nfa = NoNFA
    /\ InitLocals

\* a call NFA_to_DFA(nfa) on an NFA built by its constructor
InitNFA ==
    /\ pc = "NFA_to_DFA"
    /\ regex = <<>>
    /\ nfa \in NFAs
    /\ nfa0 = nfa
    /\ InitLocals

\* construct_parse_tree: standardize(regex)
Standardize ==
    /\ pc = "construct_matcher"
    /\ std' = standardize(regex)
    /\ pc' = "infix_to_prefix"
    /\ UNCHANGED <<regex, prefix, tree, raised, nfa0, nfa, eps_free,
                   state_origins, new_delta, work_set, id_gen, cur, todo,
                   popped, dfa, verdict>>

\* construct_parse_tree: infix_to_prefix(...)
InfixToPrefix ==
    /\ pc = "infix_to_prefix"
    /\ LET p == infix_to_prefix(std)
       IN  IF p.err # NoError
           THEN /\ raised' = p.err
                /\ pc' = "raised"
                /\ UNCHANGED prefix
           ELSE /\ prefix' = p.result
                /\ pc' = "construct_branch"
                /\ UNCHANGED raised
    /\ UNCHANGED <<regex, std, tree, nfa0, nfa, eps_free,
                   state_origins, new_delta, work_set, id_gen, cur, todo,
                   popped, dfa, verdict>>

\* construct_parse_tree: tree, _ = construct_branch(regex)
ConstructBranch ==
    /\ pc = "construct_branch"
    /\ LET b == construct_branch(prefix)
       IN  IF b.err # NoError
           THEN /\ raised' = b.err
                /\ pc' = "raised"
                /\ UNCHANGED tree
           ELSE /\ tree' = b.tree
                /\ pc' = "construct_NFA"
                /\ UNCHANGED raised
    /\ UNCHANGED <<regex, std, prefix, nfa0, nfa, eps_free,
                   state_origins, new_delta, work_set, id_gen, cur, todo,
                   popped, dfa, verdict>>

\* construct_matcher: construct_NFA(tree), whose value is NFA_to_DFA's argument
ConstructNFA ==
    /\ pc = "construct_NFA"
    /\ LET m == construct_NFA(tree, 0)
       IN  IF m.err # NoError
           THEN /\ raised' = m.err
                /\ pc' = "raised"
                /\ UNCHANGED <<nfa0, nfa>>
           ELSE /\ nfa' = NFA_init("keyword", m.q0, m.delta, m.F)
                /\ nfa0' = nfa'
                /\ pc' = "NFA_to_DFA"
                /\ UNCHANGED raised
    /\ UNCHANGED <<regex, std, prefix, tree, eps_free,
                   state_origins, new_delta, work_set, id_gen, cur, todo,
                   popped, dfa, verdict>>

\* NFA_to_DFA: NFA_to_eps_free_NFA(nfa); new_F.add(new_q0) acts on nfa.F
EpsFree ==
    /\ pc = "NFA_to_DFA"
    /\ eps_free' = NFA_to_eps_free_NFA(nfa)
    /\ nfa' = [nfa EXCEPT !.F = eps_free_F(nfa)]
    /\ pc' = "eps_free_NFA_to_DFA"
    /\ UNCHANGED <<regex, std, prefix, tree, raised, nfa0,
                   state_origins, new_delta, work_set, id_gen, cur, todo,
                   popped, dfa, verdict>>

\* alphabet = {ch for _, ch in nfa.delta}
alphabet(n) == {k[2] : k \in DOMAIN n.delta}

\* eps_free_NFA_to_DFA, up to the while loop
SubsetInit ==
    /\ pc = "eps_free_NFA_to_DFA"
    /\ IF epsilon \in alphabet(eps_free)
       THEN /\ raised' = "AssertionError"
            /\ pc' = "raised"
            /\ UNCHANGED <<state_origins, new_delta, work_set, id_gen, popped>>
       ELSE /\ id_gen' = 1
            /\ state_origins' = (0 :> {eps_free.q0})
            /\ new_delta' = EmptyDict
            /\ work_set' = {0}
            /\ popped' = (0 :> 0)
            /\ pc' = "while"
            /\ UNCHANGED raised
    /\ UNCHANGED <<regex, std, prefix, tree, nfa0, nfa, eps_free, cur, todo,
                   dfa, verdict>>

\* work_set after an element is read without being removed
work_set_kept(S, q) == S

\* work_set after work_set.pop() has returned q
work_set_popped(S, q) == S \ {q}

\* q = work_set.pop(): any element of the set
PopWorkSet ==
    /\ pc = "while"
    /\ work_set # {}
    /\ \E q \in work_set :
        /\ cur' = q
        /\ work_set' = work_set_popped(work_set, q)
        /\ popped' = [popped EXCEPT ![q] = @ + 1]
    /\ todo' = alphabet(eps_free)
    /\ pc' = IF alphabet(eps_free) = {} THEN "while" ELSE "for"
    /\ UNCHANGED <<regex, std, prefix, tree, raised, nfa0, nfa, eps_free,
                   state_origins, new_delta, id_gen, dfa, verdict>>

\* the lookup of lines 180-181 done by identity of the set objects: the set
\* Delta has just built is none of those stored
same_origin_by_identity(origins, next_state_origin) == {}

\* {state for state, origin in state_origins.items()
\*        if origin == next_state_origin}
same_origin(origins, next_state_origin) ==
    {state \in DOMAIN origins : origins[state] = next_state_origin}

\* one iteration of "for ch in alphabet", in the set's arbitrary order
ForCh ==
    /\ pc = "for"
    /\ \E ch \in todo :
        LET next_state_origin == Delta(eps_free, state_origins[cur], ch)
            known == same_origin(state_origins, next_state_origin)
            rest == todo \ {ch}
        IN  /\ todo' = rest
            /\ IF next_state_origin = {}
               THEN /\ pc' = IF rest = {} THEN "while" ELSE "for"
                    /\ UNCHANGED <<state_origins, new_delta, work_set, id_gen,
                                   popped, raised>>
               ELSE \E next_q \in IF known # {} THEN known ELSE {id_gen} :
                    /\ IF known # {}
                       THEN UNCHANGED <<state_origins, work_set, id_gen, popped>>
                       ELSE /\ id_gen' = id_gen + 1
                            /\ state_origins' =
                                   (next_q :> next_state_origin) @@ state_origins
                            /\ work_set' = work_set \cup {next_q}
                            /\ popped' = (next_q :> 0) @@ popped
                    /\ IF <<cur, ch>> \in DOMAIN new_delta
                       THEN /\ raised' = "AssertionError"
                            /\ pc' = "raised"
                            /\ UNCHANGED new_delta
                       ELSE /\ new_delta' = (<<cur, ch>> :> next_q) @@ new_delta
                            /\ pc' = IF rest = {} THEN "while" ELSE "for"
                            /\ UNCHANGED raised
    /\ UNCHANGED <<regex, std, prefix, tree, nfa0, nfa, eps_free, cur,
                   dfa, verdict>>

\* eps_free_NFA_to_DFA, after the while loop
BuildDFA ==
    /\ pc = "while"
    /\ work_set = {}
    /\ dfa' = [q0 |-> 0, delta |-> new_delta,
               F |-> {q \in DOMAIN state_origins :
                        state_origins[q] \cap eps_free.F # {}}]
    /\ pc' = "done"
    /\ UNCHANGED <<regex, std, prefix, tree, raised, nfa0, nfa, eps_free,
                   state_origins, new_delta, work_set, id_gen, cur, todo,
                   popped, verdict>>

\* test_for_equivalence: accepts(word) and rejects(word) of the DFA and of the
\* NFA it came from, for every word tried; nfa0 is the NFA as it was built
Accepts ==
    /\ pc = "done"
    /\ verdict' = [w \in Words(nfa0) |->
                      [dfa_accepts |-> DFA_accepts(dfa, w),
                       dfa_rejects |-> DFA_rejects(dfa, w),
                       nfa_accepts |-> NFA_accepts(nfa, w),
                       nfa_rejects |-> NFA_rejects(nfa, w),
                       nfa0_accepts |-> NFA_accepts(nfa0, w)]]
    /\ pc' = "matched"
    /\ UNCHANGED <<regex, std, prefix, tree, raised, nfa0, nfa, eps_free,
                   state_origins, new_delta, work_set, id_gen, cur, todo,
                   popped, dfa>>

\* a DFA built by hand, as in TestDFA.setUp
InitDFA ==
    /\ pc = "TestDFA"
    /\ regex = <<>>
    /\ nfa = NoNFA
    /\ nfa0 = NoNFA
    /\ std = <<>>
    /\ prefix = <<>>
    /\ tree = None
    /\ raised = NoError
    /\ eps_free = NoNFA
    /\ state_origins = EmptyDict
    /\ new_delta = EmptyDict
    /\ work_set = {}
    /\ id_gen = 0
    /\ cur = -1
    /\ todo = {}
    /\ popped = EmptyDict
    /\ dfa \in DFAs
    /\ verdict = EmptyDict

\* TestDFA.test_accepts_and_rejects: accepts(word) and rejects(word) of the
\* hand-built DFA, for every word tried
TestDFA ==
    /\ pc = "TestDFA"
    /\ verdict' = [w \in DFAWords |->
                      [dfa_accepts |-> DFA_accepts(dfa, w),
                       dfa_rejects |-> DFA_rejects(dfa, w)]]
    /\ pc' = "matched"
    /\ UNCHANGED <<regex, std, prefix, tree, raised, nfa0, nfa, eps_free,
                   state_origins, new_delta, work_set, id_gen, cur, todo,
                   popped, dfa>>

\* a call standardize(regex) on any string
InitStandardize ==
    /\ pc = "standardize"
    /\ regex \in StandardizeInputs
    /\ nfa0 = NoNFA
    /\ nfa = NoNFA
    /\ InitLocals

\* construct_parse_tree: standardize(regex)
StandardizeOnce ==
    /\ pc = "standardize"
    /\ std' = standardize(regex)
    /\ pc' = "standardized"
    /\ UNCHANGED <<regex, prefix, tree, raised, nfa0, nfa, eps_free,
                   state_origins, new_delta, work_set, id_gen, cur, todo,
                   popped, dfa, verdict>>

\* infix_to_prefix: regex = standardize(regex), on the string already
\* standardized by construct_parse_tree
StandardizeAgain ==
    /\ pc = "standardized"
    /\ std' = standardize(std)
    /\ pc' = "standardized twice"
    /\ UNCHANGED <<regex, prefix, tree, raised, nfa0, nfa, eps_free,
                   state_origins, new_delta, work_set, id_gen, cur, todo,
                   popped, dfa, verdict>>

\* construct_matcher(regex), up to the call of NFA_to_DFA
NextRegex ==
    \/ Standardize
    \/ InfixToPrefix
    \/ ConstructBranch
    \/ ConstructNFA

\* NFA_to_DFA(nfa) and the matching that follows it
NextNFA ==
    \/ EpsFree
    \/ SubsetInit
    \/ PopWorkSet
    \/ ForCh
    \/ BuildDFA
    \/ Accepts

SpecRegex == InitRegex /\ [][NextRegex]_vars

SpecNFA == InitNFA /\ [][NextNFA]_vars

\* NFA_to_DFA runs in one thread, which takes its next step whenever it has one
SpecNFAFair == SpecNFA /\ WF_vars(NextNFA)

\* standardize, applied and applied again
NextStandardize ==
    \/ StandardizeOnce
    \/ StandardizeAgain

SpecStandardize == InitStandardize /\ [][NextStandardize]_vars

\* the matching of the DFAs: those NFA_to_DFA returns and the hand-built ones
NextDFA ==
    \/ NextNFA
    \/ TestDFA

SpecDFA == (InitNFA \/ InitDFA) /\ [][NextDFA]_vars

----------------------------------------------------------------------------
(* Reference semantics the claims are measured against *)

\* the standard reading of R ::= Char | R R | R '|' R | R '*' | '(' R ')':
\* '*' over concatenation over '|', binary operators grouping to the left
RefOk(t, i) == [ok |-> TRUE, tree |-> t, pos |-> i]
RefFail == [ok |-> FALSE, tree |-> None, pos |-> 0]

RECURSIVE RefAlt(_, _), RefAltRest(_, _, _), RefCat(_, _), RefCatRest(_, _, _),
          RefRep(_, _), RefStars(_, _, _), RefAtom(_, _)

RefAtom(s, i) ==
    IF i > Len(s) THEN RefFail
    ELSE IF s[i] \in Letters THEN RefOk(Node(s[i], None, None), i + 1)
    ELSE IF s[i] = "(" THEN
        LET r == RefAlt(s, i + 1)
        IN  IF r.ok /\ r.pos <= Len(s) /\ s[r.pos] = ")"
            THEN RefOk(r.tree, r.pos + 1)
            ELSE RefFail
    ELSE RefFail

RefStars(s, t, i) ==
    IF i <= Len(s) /\ s[i] = "*" THEN RefStars(s, Node("*", t, None), i + 1)
    ELSE RefOk(t, i)

RefRep(s, i) ==
    LET a == RefAtom(s, i)
    IN  IF a.ok THEN RefStars(s, a.tree, a.pos) ELSE RefFail

RefCatRest(s, t, i) ==
    IF i <= Len(s) /\ (s[i] \in Letters \/ s[i] = "(")
    THEN LET r == RefRep(s, i)
         IN  IF r.ok THEN RefCatRest(s, Node(".", t, r.tree), r.pos) ELSE RefFail
    ELSE RefOk(t, i)

RefCat(s, i) ==
    LET r == RefRep(s, i)
    IN  IF r.ok THEN RefCatRest(s, r.tree, r.pos) ELSE RefFail

RefAltRest(s, t, i) ==
    IF i <= Len(s) /\ s[i] = "|"
    THEN LET r == RefCat(s, i + 1)
         IN  IF r.ok THEN RefAltRest(s, Node("|", t, r.tree), r.pos) ELSE RefFail
    ELSE RefOk(t, i)

RefAlt(s, i) ==
    LET r == RefCat(s, i)
    IN  IF r.ok THEN RefAltRest(s, r.tree, r.pos) ELSE RefFail

NoWhitespace(s) == SelectSeq(s, LAMBDA ch : ch \notin Whitespace)

\* [ok, tree]: whether s is a regex of the grammar, and its parse
RefParse(s) ==
    LET r == RefAlt(NoWhitespace(s), 1)
    IN  [ok |-> r.ok /\ r.pos = Len(NoWhitespace(s)) + 1, tree |-> r.tree]

InGrammar(s) == RefParse(s).ok

RECURSIVE PrefixOf(_)
PrefixOf(t) ==
    IF t.data = "*" THEN <<"*">> \o PrefixOf(t.left)
    ELSE IF t.data \in {".", "|"}
    THEN <<t.data>> \o PrefixOf(t.left) \o PrefixOf(t.right)
    ELSE <<t.data>>

\* a tree in which every operator has its operands
RECURSIVE Complete(_)
Complete(t) ==
    IF t = None THEN FALSE
    ELSE IF t.data = "*" THEN Complete(t.left) /\ t.right = None
    ELSE IF t.data \in {".", "|"} THEN Complete(t.left) /\ Complete(t.right)
    ELSE t.left = None /\ t.right = None

\* the tree with every chain of one binary operator regrouped to the right
RECURSIVE Regroup(_), Operands(_, _), Nest(_, _)
Operands(op, t) ==
    IF t.data = op THEN Operands(op, t.left) \o Operands(op, t.right)
    ELSE <<Regroup(t)>>
Nest(op, ts) ==
    IF Len(ts) = 1 THEN ts[1] ELSE Node(op, ts[1], Nest(op, Tail(ts)))
Regroup(t) ==
    IF t.data \in {".", "|"} THEN Nest(t.data, Operands(t.data, t))
    ELSE IF t.data = "*" THEN Node("*", Regroup(t.left), None)
    ELSE t

\* w is in the language of the regex whose parse is t
RECURSIVE Matches(_, _)
Matches(t, w) ==
    IF t.data = "*"
    THEN \/ w = <<>>
         \/ \E k \in 1..Len(w) :
                /\ Matches(t.left, SubSeq(w, 1, k))
                /\ Matches(t, SubSeq(w, k + 1, Len(w)))
    ELSE IF t.data = "."
    THEN \E k \in 0..Len(w) :
            /\ Matches(t.left, SubSeq(w, 1, k))
            /\ Matches(t.right, SubSeq(w, k + 1, Len(w)))
    ELSE IF t.data = "|" THEN Matches(t.left, w) \/ Matches(t.right, w)
    ELSE w = <<t.data>>

\* w is a concatenation of zero or more words the automaton n accepts
RECURSIVE InKleeneClosure(_, _)
InKleeneClosure(n, w) ==
    \/ w = <<>>
    \/ \E k \in 1..Len(w) :
            /\ NFA_accepts(n, SubSeq(w, 1, k))
            /\ InKleeneClosure(n, SubSeq(w, k + 1, Len(w)))

RegexWords == Strings({"a", "b"}, MaxWord)

\* the call construct_matcher(regex) has ended: it raised, or it reached
\* NFA_to_DFA with the automaton of construct_NFA
Ended == pc \in {"raised", "NFA_to_DFA"}

\* infix_to_prefix has returned or raised
PrefixDone == pc \notin {"construct_matcher", "infix_to_prefix"}

\* some '(' has no ')' after it or some ')' has no '(' before it
RECURSIVE Unbalanced(_, _, _)
Unbalanced(s, i, depth) ==
    IF depth < 0 THEN TRUE
    ELSE IF i > Len(s) THEN depth > 0
    ELSE Unbalanced(s, i + 1,
                    depth + (IF s[i] = "(" THEN 1 ELSE IF s[i] = ")" THEN -1 ELSE 0))

UnmatchedParentheses(s) == Unbalanced(s, 1, 0)

\* operands the prefix string p still lacks from position i on, when need
\* are wanted
RECURSIVE Lacking(_, _, _)
Lacking(p, i, need) ==
    IF need = 0 \/ i > Len(p) THEN need
    ELSE IF p[i] \in {".", "|"} THEN Lacking(p, i + 1, need + 1)
    ELSE IF p[i] = "*" THEN Lacking(p, i + 1, need)
    ELSE Lacking(p, i + 1, need - 1)

\* a prefix string in which an operator lacks an operand
Truncated(p) ==
    /\ p # <<>>
    /\ \A i \in 1..Len(p) : p[i] \in Letters \cup {".", "|", "*"}
    /\ Lacking(p, 1, 1) > 0

\* the strings s of which regex is a copy with whitespace inserted
WhitespaceRemovals(s) ==
    LET blanks == {i \in 1..Len(s) : s[i] \in Whitespace}
        Without(P) ==
            LET RECURSIVE pick(_)
                pick(i) == IF i > Len(s) THEN <<>>
                           ELSE IF i \in P THEN pick(i + 1)
                           ELSE <<s[i]>> \o pick(i + 1)
            IN  pick(1)
    IN  {Without(P) : P \in SUBSET blanks \ {{}}}

\* an operand of a chain: one character, or a parenthesised regex
Operand(s) ==
    \/ Len(s) = 1 /\ s[1] \in Letters
    \/ /\ Len(s) >= 3
       /\ s[1] = "("
       /\ s[Len(s)] = ")"
       /\ InGrammar(SubSeq(s, 2, Len(s) - 1))
       /\ NoWhitespace(s) = s

\* s is x y z (sep empty) or x|y|z (sep "|") for operands x, y, z
ChainsOfThree(s, sep) ==
    {c \in {<<SubSeq(s, 1, i),
              SubSeq(s, i + 1 + Len(sep), j),
              SubSeq(s, j + 1 + Len(sep), Len(s))>> :
                i \in 1..Len(s), j \in 1..Len(s)} :
        /\ Operand(c[1]) /\ Operand(c[2]) /\ Operand(c[3])
        /\ c[1] \o sep \o c[2] \o sep \o c[3] = s}

HasEpsilonCycle(n) ==
    \E k \in DOMAIN n.delta :
        /\ k[2] = epsilon
        /\ k[1] \in epsilon_closure(n, n.delta[k])

\* the states n mentions
StatesOf(n) ==
    {n.q0} \cup n.F \cup {k[1] : k \in DOMAIN n.delta}
           \cup UNION {n.delta[k] : k \in DOMAIN n.delta}

\* T is closed under the epsilon-transitions of n
EpsilonClosed(n, T) == \A q \in T : Get(n.delta, <<q, epsilon>>) \subseteq T

\* the least set that contains S and is closed under epsilon-transitions
LeastClosed(n, S) ==
    CHOOSE T \in SUBSET (StatesOf(n) \cup S) :
        /\ S \subseteq T
        /\ EpsilonClosed(n, T)
        /\ \A U \in SUBSET (StatesOf(n) \cup S) :
                (S \subseteq U /\ EpsilonClosed(n, U)) => T \subseteq U

\* the pairs <<state, number of symbols of w read>> that a path of n reaches
\* from those in seen: an epsilon-transition reads nothing, a transition
\* labelled with the next symbol of w reads it
RECURSIVE PathsFrom(_, _, _)
PathsFrom(n, w, seen) ==
    LET more ==
            UNION {{<<r, c[2]>> : r \in Get(n.delta, <<c[1], epsilon>>)} \cup
                   (IF c[2] < Len(w)
                    THEN {<<r, c[2] + 1>> :
                            r \in Get(n.delta, <<c[1], w[c[2] + 1]>>)}
                    ELSE {}) : c \in seen} \ seen
    IN  IF more = {} THEN seen ELSE PathsFrom(n, w, seen \cup more)

\* a path from q0 to a state of F spells w
HasAcceptingPath(n, w) ==
    \E q \in n.F : <<q, Len(w)>> \in PathsFrom(n, w, {<<n.q0, 0>>})

\* the state d is in after the first k symbols of w; NoState once a symbol
\* had no transition
NoState == [defined |-> FALSE, state |-> 0]

RECURSIVE StateAfter(_, _, _)
StateAfter(d, w, k) ==
    IF k = 0 THEN [defined |-> TRUE, state |-> d.q0]
    ELSE LET q == StateAfter(d, w, k - 1)
         IN  IF ~q.defined \/ <<q.state, w[k]>> \notin DOMAIN d.delta
             THEN NoState
             ELSE [defined |-> TRUE, state |-> d.delta[<<q.state, w[k]>>]]

\* w reaches a (state, symbol) pair with no entry in d.delta
ReachesNoEntry(d, w) == \E k \in 1..Len(w) : StateAfter(d, w, k) = NoState

\* the pairs between which a '.' belongs, alphanumerics classed as A:
\* AA, A(, *A, *(, )(, )A
DotPairs == {"A", "*", ")"} \X {"A", "("}

ClassOf(ch) == IF ch \in Letters THEN "A" ELSE ch

\* the positions i of r with a '.' due between r[i] and r[i + 1]
DotsDue(r) ==
    {i \in 1..(Len(r) - 1) : <<ClassOf(r[i]), ClassOf(r[i + 1])>> \in DotPairs}

\* out is r with one '.' inserted after each position in DotsDue(r), and
\* nothing else changed
DotsInserted(r, out) ==
    LET shift(i) == Cardinality({j \in DotsDue(r) : j < i})
    IN  /\ Len(out) = Len(r) + Cardinality(DotsDue(r))
        /\ \A i \in 1..Len(r) : out[i + shift(i)] = r[i]
        /\ \A i \in DotsDue(r) : out[i + shift(i) + 1] = "."

\* the subset construction is in or past its loop
InLoop == pc \in {"while", "for", "done", "matched"}

\* the ids in work_set are those created and not yet popped; none was popped
\* twice
PoppedAtMostOnce ==
    /\ DOMAIN popped = DOMAIN state_origins
    /\ \A q \in DOMAIN popped : popped[q] <= 1
    /\ work_set = {q \in DOMAIN popped : popped[q] = 0}

\* every id was popped once, and every transition of a target of new_delta
\* that leads to a non-empty macro-state is in new_delta
AllProcessed ==
    /\ work_set = {}
    /\ \A q \in DOMAIN state_origins : popped[q] = 1
    /\ \A k \in DOMAIN new_delta :
        /\ new_delta[k] \in DOMAIN state_origins
        /\ \A ch \in alphabet(eps_free) :
                Delta(eps_free, state_origins[new_delta[k]], ch) # {}
                    => <<new_delta[k], ch>> \in DOMAIN new_delta

\* the positions of s where '**' or '||' starts
OperatorPairs(s) ==
    {i \in 1..(Len(s) - 1) : s[i] = s[i + 1] /\ s[i] \in {"*", "|"}}

\* s without its i-th character
Without(s, i) == SubSeq(s, 1, i - 1) \o SubSeq(s, i + 1, Len(s))

\* s is a regex of the grammar but for one operator written twice in a row,
\* like 'a**' and 'a||b'
HasDoubledOperator(s) ==
    \E i \in OperatorPairs(NoWhitespace(s)) :
        InGrammar(Without(NoWhitespace(s), i))

----------------------------------------------------------------------------
(* Claims *)

\* C1: for every regex of the grammar and every word w, the matcher that
\* construct_matcher builds accepts w iff w is in the language of the regex.
\* (NFA_to_DFA keeps the language of the automaton it is given: C2.)
C1_MatcherDecidesLanguage ==
    (InGrammar(regex) /\ Ended) =>
        /\ pc = "NFA_to_DFA"
        /\ \A w \in RegexWords :
                NFA_accepts(nfa, w) <=> Matches(RefParse(regex).tree, w)

\* C2: for every NFA and every word, the DFA of NFA_to_DFA accepts the word
\* iff the NFA does, and rejects it iff the NFA does; the NFA is taken both
\* as the call left it (nfa) and as it was built (nfa0).
C2_DeterminizationEquivalence ==
    pc = "matched" =>
        \A w \in DOMAIN verdict :
            /\ verdict[w].dfa_accepts = verdict[w].nfa_accepts
            /\ verdict[w].dfa_rejects = verdict[w].nfa_rejects
            /\ verdict[w].dfa_accepts = verdict[w].nfa0_accepts

\* C2's case: an NFA with an epsilon-cycle was determinized, a non-empty word
\* is accepted, and a word with a symbol that labels no transition was tried.
C2_Witness ==
    /\ pc = "matched"
    /\ HasEpsilonCycle(nfa0)
    /\ \E w \in DOMAIN verdict : w # <<>> /\ verdict[w].dfa_accepts
    /\ \E w \in DOMAIN verdict :
            \E i \in 1..Len(w) : w[i] \notin Labels(nfa0)

\* C3: the automaton built for Star(R) accepts w iff w is a concatenation of
\* zero or more words accepted by the automaton built for R.
C3_StarIsKleeneClosure ==
    (Ended /\ Complete(tree) /\ tree.data = "*") =>
        /\ pc = "NFA_to_DFA"
        /\ \A w \in RegexWords :
                NFA_accepts(nfa, w)
                    <=> InKleeneClosure(construct_NFA(tree.left, 0), w)

\* C4: for every regex of the grammar, the prefix form infix_to_prefix returns
\* is that of the parse with '*' over concatenation over '|' and every
\* parenthesised group a single operand.  Stated for the calls that return
\* (C5 is about those that raise), and with the grouping of a chain of one
\* operator left open (C10 is about it).
C4_PrefixFollowsPrecedence ==
    (InGrammar(regex) /\ PrefixDone /\ prefix # <<>>) =>
        LET b == construct_branch(prefix)
        IN  /\ b.err = NoError
            /\ b.remainder = <<>>
            /\ Complete(b.tree)
            /\ Regroup(b.tree) = Regroup(RefParse(regex).tree)

\* C5: for every regex of the grammar, construct_matcher raises nothing.
C5_GrammarRegexCompiles ==
    InGrammar(regex) => pc # "raised"

\* C6: a regex with unmatched parentheses ends construct_matcher with
\* ValueError, with no other exception and with no matcher.
C6_UnmatchedParenthesesAreValueError ==
    (UnmatchedParentheses(regex) /\ Ended) =>
        (pc = "raised" /\ raised = "ValueError")

\* C7: when an operator of the prefix string lacks an operand,
\* construct_parse_tree raises ValueError and returns no tree.
C7_TruncatedPrefixIsValueError ==
    (Truncated(prefix) /\ pc \in {"construct_NFA", "raised", "NFA_to_DFA"}) =>
        (pc = "raised" /\ raised = "ValueError" /\ tree = None)

C9_AltAndConcatCompose ==
    (Ended /\ Complete(tree) /\ tree.data \in {"|", "."}) =>
        /\ pc = "NFA_to_DFA"
        /\ LET l == construct_NFA(tree.left, 0)
               r == construct_NFA(tree.right, l.next)
           IN  \A w \in RegexWords :
                NFA_accepts(nfa, w) <=>
                    IF tree.data = "|"
                    THEN NFA_accepts(l, w) \/ NFA_accepts(r, w)
                    ELSE \E k \in 0..Len(w) :
                            /\ NFA_accepts(l, SubSeq(w, 1, k))
                            /\ NFA_accepts(r, SubSeq(w, k + 1, Len(w)))

\* C10: for operands x, y, z (characters or parenthesised groups), x|y|z has
\* the prefix form ||xyz and x y z (x.y.z once standardized) has ..xyz.
C10_LeftAssociative ==
    PrefixDone =>
        \A op \in {"|", "."} :
            \A c \in ChainsOfThree(NoWhitespace(regex),
                                   IF op = "|" THEN <<"|">> ELSE <<>>) :
                prefix = <<op, op>> \o PrefixOf(RefParse(c[1]).tree)
                                    \o PrefixOf(RefParse(c[2]).tree)
                                    \o PrefixOf(RefParse(c[3]).tree)

\* C11: for every DFA, hand-built or produced by NFA_to_DFA, and every word,
\* accepts and rejects return booleans, exactly one of them is true, and a
\* word that reaches a (state, symbol) pair with no delta entry is rejected.
C11_MatchingIsTotal ==
    pc = "matched" =>
        \A w \in DOMAIN verdict :
            /\ verdict[w].dfa_accepts \in BOOLEAN
            /\ verdict[w].dfa_rejects \in BOOLEAN
            /\ verdict[w].dfa_accepts # verdict[w].dfa_rejects
            /\ ReachesNoEntry(dfa, w) =>
                    (~verdict[w].dfa_accepts /\ verdict[w].dfa_rejects)

\* C11's case: a DFA was tried on a word that it accepts, on a word that runs
\* into a missing transition before its last symbol, and on a word that stays
\* on defined transitions and is rejected.
C11_Witness ==
    /\ pc = "matched"
    /\ \E w \in DOMAIN verdict : verdict[w].dfa_accepts
    /\ \E w \in DOMAIN verdict :
            Len(w) >= 2 /\ StateAfter(dfa, w, Len(w) - 1) = NoState
    /\ \E w \in DOMAIN verdict :
            ~ReachesNoEntry(dfa, w) /\ verdict[w].dfa_rejects

\* C12: for every NFA N and every word w, the delta of NFA_to_eps_free_NFA(N)
\* has no '' key, and the epsilon-free NFA accepts w iff N accepts w.
C12_EpsilonEliminationKeepsLanguage ==
    pc = "eps_free_NFA_to_DFA" =>
        /\ epsilon \notin alphabet(eps_free)
        /\ \A w \in Words(nfa0) :
                NFA_accepts(eps_free, w) <=> NFA_accepts(nfa0, w)

\* C12's case: an NFA with epsilon-transitions whose start state is not
\* accepting went through NFA_to_eps_free_NFA, and it accepts the empty word
\* and a word that is not empty.
C12_Witness ==
    /\ pc = "eps_free_NFA_to_DFA"
    /\ epsilon \in alphabet(nfa0)
    /\ nfa0.q0 \notin nfa0.F
    /\ NFA_accepts(eps_free, <<>>)
    /\ \E w \in Words(nfa0) : w # <<>> /\ NFA_accepts(eps_free, w)

\* C13: NFA.accepts(w) is true iff a path from q0 to a state of F spells w
\* with its labels other than '', and _epsilon_closure(S) is the least set
\* that contains S and is closed under epsilon-transitions.
C13_AcceptsIsPathExistence ==
    pc = "matched" =>
        /\ \A w \in DOMAIN verdict :
                /\ verdict[w].nfa0_accepts <=> HasAcceptingPath(nfa0, w)
                /\ verdict[w].nfa_accepts <=> HasAcceptingPath(nfa, w)
        /\ \A S \in SUBSET StatesOf(nfa0) :
                epsilon_closure(nfa0, S) = LeastClosed(nfa0, S)

\* C13's case: accepts was run on an NFA whose epsilon-transitions form a cycle
\* that the start state reaches, on a word it accepts and on a word it rejects.
C13_Witness ==
    /\ pc = "matched"
    /\ \E q \in epsilon_closure(nfa0, {nfa0.q0}) :
            q \in epsilon_closure(nfa0, Get(nfa0.delta, <<q, epsilon>>))
    /\ \E w \in DOMAIN verdict : w # <<>> /\ verdict[w].nfa0_accepts
    /\ \E w \in DOMAIN verdict : ~verdict[w].nfa0_accepts

\* C14: for every string s, standardize(standardize(s)) = standardize(s).
C14_StandardizeIdempotent ==
    pc = "standardized twice" => std = standardize(regex)

\* C14's case: standardize was applied twice to a string with whitespace in
\* which the first application inserted a '.'.
C14_Witness ==
    /\ pc = "standardized twice"
    /\ \E i \in 1..Len(regex) : regex[i] \in Whitespace
    /\ Len(std) > Len(NoWhitespace(regex))

\* C15: standardize removes the whitespace and inserts '.' between two
\* adjacent characters exactly when their pair, alphanumerics classed as A,
\* is one of AA, A(, *A, *(, )(, )A; it changes nothing else, and
\* ' ( a * b c * ) *' becomes '(a*.b.c*)*'.
C15_DotsExactlyBetweenPatternPairs ==
    pc = "standardized" =>
        /\ DotsInserted(NoWhitespace(regex), std)
        /\ regex = <<" ", "(", " ", "a", " ", "*", " ", "b", " ", "c", " ", "*",
                     " ", ")", " ", "*">>
                => std = <<"(", "a", "*", ".", "b", ".", "c", "*", ")", "*">>

\* C15's case: standardize was applied to a string with whitespace, with a
\* pair that gets a '.' and with a pair that gets none.
C15_Witness ==
    /\ pc = "standardized"
    /\ \E i \in 1..Len(regex) : regex[i] \in Whitespace
    /\ DotsDue(NoWhitespace(regex)) # {}
    /\ Cardinality(DotsDue(NoWhitespace(regex))) < Len(NoWhitespace(regex)) - 1

\* C16: after NFA_to_DFA(N) returns, the q0, delta and F of N are what they
\* were before the call.
C16_ArgumentUnchanged ==
    pc \in {"done", "matched"} =>
        /\ nfa.q0 = nfa0.q0
        /\ nfa.delta = nfa0.delta
        /\ nfa.F = nfa0.F

\* C17: throughout the subset construction no two DFA ids have equal
\* macro-states, no macro-state is empty, and no (DFA id, symbol) key is
\* written to new_delta twice: neither assertion of eps_free_NFA_to_DFA fails.
C17_StateOriginsInjective ==
    /\ \A p, q \in DOMAIN state_origins :
            state_origins[p] = state_origins[q] => p = q
    /\ \A q \in DOMAIN state_origins : state_origins[q] # {}
    /\ pc # "raised"
    /\ raised = NoError

\* C17's case: the loop has ended with three DFA ids or more, one macro-state
\* of two NFA states or more, and a transition into a macro-state that was
\* already known when it was computed.
C17_Witness ==
    /\ pc = "done"
    /\ Cardinality(DOMAIN state_origins) >= 3
    /\ \E q \in DOMAIN state_origins : Cardinality(state_origins[q]) >= 2
    /\ \E k \in DOMAIN new_delta : new_delta[k] <= k[1]

\* C18: the worklist loop of the subset construction terminates; each DFA id
\* is in work_set from its creation until it is popped, once; and on exit
\* every id of state_origins has been popped, so every target in new_delta
\* has had its own transitions computed.
C18_WorklistTerminates ==
    /\ [](InLoop => PoppedAtMostOnce)
    /\ [](pc = "done" => AllProcessed)
    /\ <>(pc = "done")

\* C18's case: the loop has ended after popping four ids or more, with
\* transitions between different ids.
C18_Witness ==
    /\ pc = "done"
    /\ Cardinality({q \in DOMAIN popped : popped[q] = 1}) >= 4
    /\ \E k \in DOMAIN new_delta : new_delta[k] # k[1]

\* C19: for a Concat or Alt node the states of the two sub-fragments are
\* disjoint, the fresh start state of an Alt is in neither, and every
\* transition of either sub-fragment is in the composed fragment's delta.
C19_SubFragmentsDisjoint ==
    (Ended /\ Complete(tree) /\ tree.data \in {"|", "."}) =>
        LET l == construct_NFA(tree.left, 0)
            r == construct_NFA(tree.right, l.next)
        IN  /\ pc = "NFA_to_DFA"
            /\ l.err = NoError
            /\ r.err = NoError
            /\ StatesOf(l) \cap StatesOf(r) = {}
            /\ tree.data = "|" => nfa.q0 \notin StatesOf(l) \cup StatesOf(r)
            /\ \A k \in DOMAIN l.delta :
                    k \in DOMAIN nfa.delta /\ l.delta[k] \subseteq nfa.delta[k]
            /\ \A k \in DOMAIN r.delta :
                    k \in DOMAIN nfa.delta /\ r.delta[k] \subseteq nfa.delta[k]

\* C20: a regex with an operator doubled ('**', '||') keeps the pair without
\* a '.' in it through standardize, and the parser then rejects it: neither
\* a parse tree nor a matcher is produced.
C20_DoubledOperatorRejected ==
    HasDoubledOperator(regex) =>
        /\ pc # "construct_matcher" => OperatorPairs(std) # {}
        /\ pc \notin {"construct_matcher", "infix_to_prefix", "construct_branch"}
                => (pc = "raised" /\ raised = "ValueError" /\ tree = None)

====
